---- MODULE Spec2Model ----
(***************************************************************************)
(* GoBank transfer engine: handleTransfer / validateTransfer /             *)
(* performTransfer of the API server over the PostgresStorage account      *)
(* table.  Every request runs on its own goroutine (a worker); the workers *)
(* interleave at the store calls.  Store reads (GetAccountByNumber) see    *)
(* the committed table; UpdateAccountBalance inside a transaction writes a *)
(* new row version that is private to the transaction and holds the row    *)
(* lock until Commit or Rollback (PostgreSQL READ COMMITTED).              *)
(*                                                                         *)
(* A float64 amount of major units is represented by the integer number of *)
(* thousandths of a unit (1505 is 1.505), so that both truncating          *)
(* conversions of the code, int64(amount * 100) and int64(amount), lose    *)
(* digits as they do in the code.                                          *)
(***************************************************************************)
EXTENDS Integers, FiniteSets, Sequences, TLC

\* ---------------------------------------------------------------- bounds
MaxAccounts == 2
MaxRequests == 2
NumberRange == 2

Ids == 1..MaxAccounts
\* every request is served on a goroutine of its own
Workers == 1..MaxRequests
\* the transaction seedAccount opens on the main goroutine
MainTx == MaxRequests + 1
\* the transactions there can be: one per request, and seedAccount's
Txs == Workers \cup {MainTx}
\* account numbers NewAccount can draw: rand.Intn(n) is 0..n-1
Numbers == 0..(NumberRange - 1)
\* numbers a transfer request can name (any int64)
ReqNumbers == {0, 1, 2}
\* request amounts, in thousandths: -1.0, 0, 0.505, 1.505
Amounts == {-1000, 0, 505, 1505}
\* balances (minor units) of the accounts the transfer runs start from
InitBalances == {0, 100}

\* ------------------------------------------------------------ error texts
ErrAmount == "transfer amount must be positive"
ErrSource == "invalid source account"
ErrDest == "invalid destination account"
ErrSelf == "cannot transfer to the same account"
ErrFunds == "insufficient balance"
ErrSourceGone == "source account not found"
ErrDestGone == "destination account not found"
ErrBegin == "could not begin transaction"
ErrDebit == "failed to deduct from source account"
ErrCredit == "failed to credit destination account"
ErrCommit == "failed to commit transfer"
Success == "success"
NoResult == "none"

ValidationErrors == {ErrAmount, ErrSource, ErrDest, ErrSelf, ErrFunds}
ExecutionErrors == {ErrSourceGone, ErrDestGone, ErrBegin, ErrDebit, ErrCredit, ErrCommit}

VARIABLES
    rows,         \* ids of the rows of table account
    number,       \* account_number column
    balance,      \* balance column, committed value (minor units)
    nextId,       \* next value of the id serial
    txState,      \* per transaction: its state
    txWrite,      \* per transaction: row versions written while it is open
    pc,           \* per worker: position in handleTransfer
    req,          \* per worker: the decoded TransferRequest
    fromAccount,  \* per worker: local fromAccount
    toAccount,    \* per worker: local toAccount
    result,       \* per worker: what handleTransfer returned
    lookups,      \* per worker: GetAccountByNumber calls of this request
    stale,        \* per worker: the table changed since the request was received
    initial,      \* balances the run started from
    ledger,       \* per id: credits minus debits of the receipts returned
    mainPc,       \* position of main
    seedAcc       \* seedAccount's local acc

dbVars == <<rows, number, balance, nextId>>
txVars == <<txState, txWrite>>
localVars == <<req, fromAccount, toAccount, lookups>>
histVars == <<stale, initial, ledger>>
mainVars == <<mainPc, seedAcc>>
vars == <<rows, number, balance, nextId, txState, txWrite, pc, req,
          fromAccount, toAccount, result, lookups, stale,
          initial, ledger, mainPc, seedAcc>>

\* ------------------------------------------------------------ conversions
\* Go's float64 -> int64 conversion truncates toward zero
TruncDivFloor(x, d) == x \div d

TruncDiv(x, d) == IF x >= 0 THEN x \div d ELSE -((-x) \div d)

\* int64(amount * 100), amount in thousandths
CentsPerUnit == 100
AmountInCents(amount) == TruncDiv(amount * CentsPerUnit, 1000)

\* int64(req.Amount)
Int64OfAmount(amount) == TruncDiv(amount, 1000)

\* ------------------------------------------------------------------ store
NoAccount == [ID |-> 0, Number |-> -1, Balance |-> 0]
NoReq == [FromAccountNumber |-> -1, ToAccountNumber |-> -1, Amount |-> 0]
NoWrites == [i \in {} |-> 0]
NoTx == 0

Found(acc) == acc.ID # 0

\* the rows QueryRow can return for account_number = n (no ORDER BY: any one
\* of the matching rows), or the not-found error
GetAccountByNumber(n) ==
    LET match == {i \in rows : number[i] = n}
    IN  IF match = {} THEN {NoAccount}
        ELSE {[ID |-> i, Number |-> number[i], Balance |-> balance[i]] : i \in match}

\* row id is locked by an open transaction other than tx
RowLockedNever(tx, id) == FALSE

RowLocked(tx, id) == \E q \in Txs \ {tx} : id \in DOMAIN txWrite[q]

\* the row version an UPDATE of transaction tx starts from
CurrentVersion(tx, id) ==
    IF id \in DOMAIN txWrite[tx] THEN txWrite[tx][id] ELSE balance[id]

\* tx.Exec("UPDATE account SET balance = balance + $1 WHERE id = $2")
TxExec(tx, id, delta) ==
    IF id \in rows
    THEN /\ ~RowLocked(tx, id)
         /\ txWrite' = [txWrite EXCEPT ![tx] =
                [i \in (DOMAIN txWrite[tx]) \cup {id} |->
                    IF i = id THEN CurrentVersion(tx, id) + delta
                    ELSE txWrite[tx][i]]]
         /\ UNCHANGED balance
    ELSE UNCHANGED <<txWrite, balance>>

\* s.db.Exec of the same statement: a transaction of its own
DbExec(id, delta) ==
    /\ IF id \in rows
       THEN /\ ~RowLocked(NoTx, id)
            /\ balance' = [balance EXCEPT ![id] = @ + delta]
       ELSE UNCHANGED balance
    /\ UNCHANGED txWrite

UpdateAccountBalanceAutoCommit(accountID, amount, tx) ==
    DbExec(accountID, AmountInCents(amount))

UpdateAccountBalance(accountID, amount, tx) ==
    LET amountInCents == AmountInCents(amount)
    IN  IF tx # NoTx THEN TxExec(tx, accountID, amountInCents)
        ELSE DbExec(accountID, amountInCents)

\* the committed table after tx.Commit()
Committed(tx) ==
    [i \in Ids |-> IF i \in DOMAIN txWrite[tx] /\ i \in rows
                   THEN txWrite[tx][i] ELSE balance[i]]

\* a committed change of the table ends the "unchanged store" of every
\* request received before it
Touch(st) == [q \in Workers |-> st[q] \/ pc[q] # "idle"]

\* ------------------------------------------------------------------- Init
InitWorkers ==
    /\ txState = [p \in Txs |-> "none"]
    /\ txWrite = [p \in Txs |-> NoWrites]
    /\ pc = [p \in Workers |-> "idle"]
    /\ req = [p \in Workers |-> NoReq]
    /\ fromAccount = [p \in Workers |-> NoAccount]
    /\ toAccount = [p \in Workers |-> NoAccount]
    /\ result = [p \in Workers |-> NoResult]
    /\ lookups = [p \in Workers |-> 0]
    /\ stale = [p \in Workers |-> FALSE]
    /\ ledger = [i \in Ids |-> 0]

\* a store holding the two accounts A (id 1, number 1) and B (id 2, number 2)
\* with non-negative balances; the two are interchangeable, so A is the one
\* that holds no less than B
Init ==
    /\ rows = {1, 2}
    /\ number = [i \in Ids |-> IF i \in {1, 2} THEN i ELSE 0]
    /\ \E a \in InitBalances, b \in InitBalances :
          /\ b <= a
          /\ balance = [i \in Ids |-> IF i = 1 THEN a ELSE IF i = 2 THEN b ELSE 0]
    /\ initial = balance
    /\ nextId = MaxAccounts + 1
    /\ InitWorkers
    /\ mainPc = "serving"
    /\ seedAcc = NoAccount

\* -------------------------------------------------------- handleTransfer
\* the call returns err (or the receipt) to the caller; its locals are gone
Return(p, err) ==
    /\ pc' = [pc EXCEPT ![p] = "done"]
    /\ result' = [result EXCEPT ![p] = err]
    /\ fromAccount' = [fromAccount EXCEPT ![p] = NoAccount]
    /\ toAccount' = [toAccount EXCEPT ![p] = NoAccount]

\* the call goes on to the statement at label with these locals
Goto(p, label, from, to) ==
    /\ pc' = [pc EXCEPT ![p] = label]
    /\ fromAccount' = [fromAccount EXCEPT ![p] = from]
    /\ toAccount' = [toAccount EXCEPT ![p] = to]
    /\ UNCHANGED result

FailNoDefer(p, err) ==
    /\ pc' = [pc EXCEPT ![p] = "done"]
    /\ result' = [result EXCEPT ![p] = err]
    /\ fromAccount' = [fromAccount EXCEPT ![p] = NoAccount]
    /\ toAccount' = [toAccount EXCEPT ![p] = NoAccount]

\* performTransfer returns err with the transaction open: the deferred
\* Rollback is still to run
Fail(p, err) ==
    /\ pc' = [pc EXCEPT ![p] = "rollback"]
    /\ result' = [result EXCEPT ![p] = err]
    /\ fromAccount' = [fromAccount EXCEPT ![p] = NoAccount]
    /\ toAccount' = [toAccount EXCEPT ![p] = NoAccount]

\* part_001 line 72, APIServer.Run: the handlers are served once main has
\* reached server.Run()
Serving == mainPc = "serving"

AmountInvalidStrict(amount) == amount < 0

\* line 299: req.Amount <= 0
AmountInvalid(amount) == amount <= 0

handleTransferInTx(p) ==
    /\ Serving
    /\ pc[p] = "idle"
    /\ \E f \in ReqNumbers, t \in ReqNumbers, a \in Amounts :
          /\ req' = [req EXCEPT ![p] =
                [FromAccountNumber |-> f, ToAccountNumber |-> t, Amount |-> a]]
          /\ IF AmountInvalid(a)
             THEN Return(p, ErrAmount)
             ELSE Goto(p, "v_from", NoAccount, NoAccount)
    /\ txState' = [txState EXCEPT ![p] = "open"]
    /\ UNCHANGED <<dbVars, txWrite, lookups, histVars, mainVars>>

\* lines 269-285 and 297-301: a request is decoded and validateTransfer
\* tests its amount
handleTransfer(p) ==
    /\ Serving
    /\ pc[p] = "idle"
    /\ \E f \in ReqNumbers, t \in ReqNumbers, a \in Amounts :
          /\ req' = [req EXCEPT ![p] =
                [FromAccountNumber |-> f, ToAccountNumber |-> t, Amount |-> a]]
          /\ IF AmountInvalid(a)
             THEN Return(p, ErrAmount)
             ELSE Goto(p, "v_from", NoAccount, NoAccount)
    /\ UNCHANGED <<dbVars, txVars, lookups, histVars, mainVars>>

\* validateTransfer, lines 303-307
validateFrom(p) ==
    /\ pc[p] = "v_from"
    /\ lookups' = [lookups EXCEPT ![p] = @ + 1]
    /\ \E acc \in GetAccountByNumber(req[p].FromAccountNumber) :
          IF ~Found(acc)
          THEN Return(p, ErrSource)
          ELSE Goto(p, "v_to", acc, NoAccount)
    /\ UNCHANGED <<dbVars, txVars, req, histVars, mainVars>>

\* line 321: fromAccount.Balance < int64(req.Amount)
Insufficient(acc, amount) == acc.Balance < Int64OfAmount(amount)

CheckAccountsFundsFirst(from, to, amount) ==
    IF Insufficient(from, amount) THEN ErrFunds
    ELSE IF from.Number = to.Number THEN ErrSelf
    ELSE NoResult

\* lines 315-325: the two tests on the accounts found, in the code's order
CheckAccounts(from, to, amount) ==
    IF from.Number = to.Number THEN ErrSelf
    ELSE IF Insufficient(from, amount) THEN ErrFunds
    ELSE NoResult

\* validateTransfer, lines 309-325; on nil handleTransfer calls
\* performTransfer, whose locals start empty
validateTo(p) ==
    /\ pc[p] = "v_to"
    /\ lookups' = [lookups EXCEPT ![p] = @ + 1]
    /\ \E acc \in GetAccountByNumber(req[p].ToAccountNumber) :
          IF ~Found(acc)
          THEN Return(p, ErrDest)
          ELSE LET err == CheckAccounts(fromAccount[p], acc, req[p].Amount)
               IN  IF err # NoResult
                   THEN Return(p, err)
                   ELSE Goto(p, "p_from", NoAccount, NoAccount)
    /\ UNCHANGED <<dbVars, txVars, req, histVars, mainVars>>

\* performTransfer, lines 333-336
performFrom(p) ==
    /\ pc[p] = "p_from"
    /\ lookups' = [lookups EXCEPT ![p] = @ + 1]
    /\ \E acc \in GetAccountByNumber(req[p].FromAccountNumber) :
          IF ~Found(acc)
          THEN Return(p, ErrSourceGone)
          ELSE Goto(p, "p_to", acc, NoAccount)
    /\ UNCHANGED <<dbVars, txVars, req, histVars, mainVars>>

\* performTransfer, lines 344-348: s.db.Begin() opens the transaction of
\* worker p, which goes on with locals from and to, or fails
BeginTransaction(p, from, to) ==
    \/ /\ txState' = [txState EXCEPT ![p] = "open"]
       /\ Goto(p, "debit", from, to)
    \/ /\ Return(p, ErrBegin)
       /\ UNCHANGED txState

\* performTransfer, lines 338-348: the second lookup, then BeginTransaction
\* (which touches no row, so the two are one step)
performTo(p) ==
    /\ pc[p] = "p_to"
    /\ lookups' = [lookups EXCEPT ![p] = @ + 1]
    /\ \E acc \in GetAccountByNumber(req[p].ToAccountNumber) :
          IF ~Found(acc)
          THEN Return(p, ErrDestGone) /\ UNCHANGED txState
          ELSE BeginTransaction(p, fromAccount[p], acc)
    /\ UNCHANGED <<dbVars, txWrite, req, histVars, mainVars>>

\* performTransfer, lines 350-357: the statement runs, or the store reports
\* an error (deadlock victim, integer out of range, connection lost)
debit(p) ==
    /\ pc[p] = "debit"
    /\ \/ /\ UpdateAccountBalance(fromAccount[p].ID, -req[p].Amount, p)
          /\ Goto(p, "credit", fromAccount[p], toAccount[p])
       \/ /\ Fail(p, ErrDebit)
          /\ UNCHANGED <<txWrite, balance>>
    /\ UNCHANGED <<rows, number, nextId, txState, req, lookups, histVars, mainVars>>

\* performTransfer, lines 359-366
credit(p) ==
    /\ pc[p] = "credit"
    /\ \/ /\ UpdateAccountBalance(toAccount[p].ID, req[p].Amount, p)
          /\ Goto(p, "commit", fromAccount[p], toAccount[p])
       \/ /\ Fail(p, ErrCredit)
          /\ UNCHANGED <<txWrite, balance>>
    /\ UNCHANGED <<rows, number, nextId, txState, req, lookups, histVars, mainVars>>

\* the receipt of lines 374-380, entered in the ledger
Receipt(p) ==
    LET m == AmountInCents(req[p].Amount)
    IN  [i \in Ids |-> ledger[i]
            + (IF i = toAccount[p].ID THEN m ELSE 0)
            - (IF i = fromAccount[p].ID THEN m ELSE 0)]

\* performTransfer, lines 368-380: tx.Commit() makes the written row versions
\* the committed ones and the receipt is returned (the deferred Rollback then
\* finds the transaction done); or Commit fails, nothing is applied and the
\* transaction is over
commit(p) ==
    /\ pc[p] = "commit"
    /\ \/ /\ balance' = Committed(p)
          /\ txState' = [txState EXCEPT ![p] = "committed"]
          /\ Return(p, Success)
          /\ ledger' = Receipt(p)
          /\ stale' = Touch(stale)
       \/ /\ txState' = [txState EXCEPT ![p] = "rolledback"]
          /\ Fail(p, ErrCommit)
          /\ UNCHANGED <<balance, ledger, stale>>
    /\ txWrite' = [txWrite EXCEPT ![p] = NoWrites]
    /\ UNCHANGED <<rows, number, nextId, req, lookups, initial, mainVars>>

rollbackCommits(p) ==
    /\ pc[p] = "rollback"
    /\ balance' = Committed(p)
    /\ txWrite' = [txWrite EXCEPT ![p] = NoWrites]
    /\ txState' = [txState EXCEPT ![p] = "committed"]
    /\ pc' = [pc EXCEPT ![p] = "done"]
    /\ UNCHANGED <<rows, number, nextId, localVars, result, histVars, mainVars>>

\* line 348, defer tx.Rollback(), on the error returns
rollback(p) ==
    /\ pc[p] = "rollback"
    /\ txWrite' = [txWrite EXCEPT ![p] = NoWrites]
    /\ txState' = [txState EXCEPT ![p] = "rolledback"]
    /\ pc' = [pc EXCEPT ![p] = "done"]
    /\ UNCHANGED <<dbVars, localVars, result, histVars, mainVars>>

\* ------------------------------------------------------- account handlers
\* handleCreateAccount: NewAccount draws the number, CreateAccount inserts the
\* row; id comes from the serial, balance is the zero of the new Account
handleCreateAccount ==
    /\ Serving
    /\ nextId <= MaxAccounts
    /\ \E n \in Numbers :
          number' = [number EXCEPT ![nextId] = n]
    /\ rows' = rows \cup {nextId}
    /\ balance' = [balance EXCEPT ![nextId] = 0]
    /\ nextId' = nextId + 1
    /\ stale' = Touch(stale)
    /\ UNCHANGED <<txVars, pc, localVars, result, initial, ledger, mainVars>>

\* handleDeleteAccount: DELETE FROM account WHERE id = $1; the statement waits
\* for the row lock of an open transaction
handleDeleteAccount ==
    /\ Serving
    /\ \E id \in rows :
          /\ ~RowLocked(NoTx, id)
          /\ rows' = rows \ {id}
          /\ number' = [number EXCEPT ![id] = 0]
          /\ balance' = [balance EXCEPT ![id] = 0]
    /\ stale' = Touch(stale)
    /\ UNCHANGED <<nextId, txVars, pc, localVars, result, initial, ledger, mainVars>>

\* the store after init(): the account table is empty
InitStore ==
    /\ rows = {}
    /\ number = [i \in Ids |-> 0]
    /\ balance = [i \in Ids |-> 0]
    /\ initial = balance
    /\ nextId = 1
    /\ InitWorkers
    /\ mainPc = "serving"
    /\ seedAcc = NoAccount

Transfer ==
    \E p \in Workers :
        \/ handleTransfer(p)
        \/ validateFrom(p)
        \/ validateTo(p)
        \/ performFrom(p)
        \/ performTo(p)
        \/ debit(p)
        \/ credit(p)
        \/ commit(p)
        \/ rollback(p)

\* transfers over a fixed set of accounts
Next == Transfer

Spec == Init /\ [][Next]_vars

\* the whole server: accounts are created and deleted while transfers run
NextStore ==
    \/ Transfer
    \/ handleCreateAccount
    \/ handleDeleteAccount

SpecStore == InitStore /\ [][NextStore]_vars

\* ------------------------------------------------------------------- main
\* part_001 line 28: initialBalance := 1000.00, in thousandths
SeedAmount == 1000000

\* NewAccount: the number is drawn, ID and Balance are the zero values
NewAccount(n) == [ID |-> 0, Number |-> n, Balance |-> 0]

\* CreateAccount: the INSERT names every column but id, which the serial
\* gives; nothing is read back into the Account
CreateAccount(a) ==
    /\ rows' = rows \cup {nextId}
    /\ number' = [number EXCEPT ![nextId] = a.Number]
    /\ balance' = [balance EXCEPT ![nextId] = a.Balance]
    /\ nextId' = nextId + 1

\* main without -seed: init() and then server.Run()
mainRun ==
    /\ mainPc = "main"
    /\ mainPc' = "serving"
    /\ UNCHANGED <<dbVars, txVars, pc, localVars, result, histVars, seedAcc>>

\* seedAccount, lines 10-19
seedCreate ==
    /\ mainPc = "main"
    /\ nextId <= MaxAccounts
    /\ \E n \in Numbers :
          /\ seedAcc' = NewAccount(n)
          /\ CreateAccount(NewAccount(n))
    /\ mainPc' = "seed_begin"
    /\ UNCHANGED <<txVars, pc, localVars, result, histVars>>

\* seedAccount, lines 22-26
seedBegin ==
    /\ mainPc = "seed_begin"
    /\ txState' = [txState EXCEPT ![MainTx] = "open"]
    /\ mainPc' = "seed_update"
    /\ UNCHANGED <<dbVars, txWrite, pc, localVars, result, histVars, seedAcc>>

\* seedAccount, lines 28-31
seedUpdate ==
    /\ mainPc = "seed_update"
    /\ UpdateAccountBalance(seedAcc.ID, SeedAmount, MainTx)
    /\ mainPc' = "seed_commit"
    /\ UNCHANGED <<rows, number, nextId, txState, pc, localVars, result,
                   histVars, seedAcc>>

\* seedAccount, lines 33-35
seedCommit ==
    /\ mainPc = "seed_commit"
    /\ balance' = Committed(MainTx)
    /\ txState' = [txState EXCEPT ![MainTx] = "committed"]
    /\ txWrite' = [txWrite EXCEPT ![MainTx] = NoWrites]
    /\ mainPc' = "seed_verify"
    /\ UNCHANGED <<rows, number, nextId, pc, localVars, result, histVars, seedAcc>>

\* seedAccount, lines 37-45, and main goes on to server.Run()
seedVerify ==
    /\ mainPc = "seed_verify"
    /\ \E a \in GetAccountByNumber(seedAcc.Number) : Found(a)
    /\ mainPc' = "serving"
    /\ UNCHANGED <<dbVars, txVars, pc, localVars, result, histVars, seedAcc>>

\* a store call of seedAccount reports an error: log.Fatal ends the process,
\* and the store aborts the transaction of the closed connection
seedFatal ==
    /\ mainPc \in {"seed_begin", "seed_update", "seed_commit"}
    /\ mainPc' = "exit"
    /\ txWrite' = [txWrite EXCEPT ![MainTx] = NoWrites]
    /\ txState' = [txState EXCEPT ![MainTx] =
          IF @ = "open" THEN "rolledback" ELSE @]
    /\ UNCHANGED <<dbVars, pc, localVars, result, histVars, seedAcc>>

\* the table init() finds: empty, or holding an account of an earlier run
InitMain ==
    /\ \E present \in BOOLEAN, n \in Numbers, b \in InitBalances :
          /\ rows = IF present THEN {1} ELSE {}
          /\ number = [i \in Ids |-> IF present /\ i = 1 THEN n ELSE 0]
          /\ balance = [i \in Ids |-> IF present /\ i = 1 THEN b ELSE 0]
          /\ nextId = IF present THEN 2 ELSE 1
    /\ initial = balance
    /\ InitWorkers
    /\ mainPc = "main"
    /\ seedAcc = NoAccount

\* main: the optional seeding, then the server
NextMain ==
    \/ mainRun
    \/ seedCreate
    \/ seedBegin
    \/ seedUpdate
    \/ seedCommit
    \/ seedVerify
    \/ seedFatal
    \/ NextStore

SpecMain == InitMain /\ [][NextMain]_vars

\* ------------------------------------------------------------ properties
RECURSIVE SumOver(_, _)
SumOver(f, S) ==
    IF S = {} THEN 0
    ELSE LET x == CHOOSE y \in S : TRUE IN f[x] + SumOver(f, S \ {x})

Validating == {"v_from", "v_to"}
Performing == {"p_from", "p_to", "debit", "credit", "commit", "rollback"}
\* the row a number names, when exactly one row has it
AccountOf(n) == CHOOSE i \in rows : number[i] = n

Quiet == \A p \in Workers : pc[p] \in {"idle", "done"}

\* worker p takes a step
Steps(p) == pc'[p] # pc[p]

\* worker p's Commit succeeds in this step
Commits(p) == pc[p] = "commit" /\ result'[p] = Success

\* C1: a transfer that returns the receipt changes the committed balances in
\* its Commit step only, and there by exactly -m on the source row and +m on
\* the destination row, m = int64(amount * 100); so the two balances keep
\* their sum and, with nothing interleaved, balance after = balance before -/+ m.
C1_SuccessMovesExactlyM ==
    [][\A p \in Workers :
          Steps(p) =>
             IF Commits(p)
             THEN LET m == AmountInCents(req[p].Amount)
                      X == fromAccount[p].ID
                      Y == toAccount[p].ID
                  IN  /\ X # Y
                      /\ balance'[X] = balance[X] - m
                      /\ balance'[Y] = balance[Y] + m
                      /\ balance'[X] + balance'[Y] = balance[X] + balance[Y]
                      /\ \A i \in Ids \ {X, Y} : balance'[i] = balance[i]
             ELSE balance' = balance]_vars

\* a single transfer of a positive number of cents has returned its receipt
C1_Witness ==
    \E p \in Workers :
        /\ \A q \in Workers \ {p} : pc[q] = "idle"
        /\ pc[p] = "done"
        /\ result[p] = Success
        /\ AmountInCents(req[p].Amount) > 0
        /\ balance[AccountOf(req[p].FromAccountNumber)]
              = initial[AccountOf(req[p].FromAccountNumber)]
                   - AmountInCents(req[p].Amount)
        /\ balance[AccountOf(req[p].ToAccountNumber)]
              = initial[AccountOf(req[p].ToAccountNumber)]
                   + AmountInCents(req[p].Amount)

\* C2: over the fixed set of accounts the sum of the committed balances is
\* the initial sum in every reachable state.
C2_SumConstant == SumOver(balance, rows) = SumOver(initial, rows)

\* one transfer has committed a positive amount and another one was aborted
\* after its debit
C2_Witness ==
    \E p \in Workers, q \in Workers :
        /\ pc[p] = "done" /\ result[p] = Success
        /\ AmountInCents(req[p].Amount) > 0
        /\ balance # initial
        /\ pc[q] = "done" /\ result[q] = ErrCredit
        /\ AmountInCents(req[q].Amount) > 0

\* C3: once the transaction is open, every step of the call other than a
\* successful Commit leaves all committed balances as they are, and a call
\* that ends after a failed debit, credit or commit returns an error with
\* nothing of its transaction left behind.
C3_AbortLeavesNoDebit ==
    [][\A p \in Workers :
          (pc[p] \in {"debit", "credit", "commit", "rollback"}
              /\ Steps(p) /\ ~Commits(p)) =>
             /\ balance' = balance
             /\ (pc'[p] = "done" =>
                    /\ result'[p] \in {ErrDebit, ErrCredit, ErrCommit}
                    /\ txWrite'[p] = NoWrites
                    /\ txState'[p] = "rolledback")]_vars

\* a call whose credit failed after a debit of a positive amount has
\* returned, and the balances are the initial ones
C3_Witness ==
    \E p \in Workers :
        /\ \A q \in Workers \ {p} : pc[q] = "idle"
        /\ pc[p] = "done"
        /\ result[p] = ErrCredit
        /\ AmountInCents(req[p].Amount) > 0
        /\ txState[p] = "rolledback"
        /\ balance = initial

\* C4: every committed balance is >= 0 in every reachable state.
C4_NonNegative == \A i \in rows : balance[i] >= 0

\* C5: when validateTransfer has read a source balance smaller than the
\* amount in minor units, and the destination exists and is another account,
\* the tests of validateTransfer reject the request with the
\* insufficient-balance error (so performTransfer is not run).
C5_OverdraftRejected ==
    \A p \in Workers :
        (pc[p] = "v_to" /\ AmountInCents(req[p].Amount) > fromAccount[p].Balance) =>
            \A acc \in GetAccountByNumber(req[p].ToAccountNumber) :
                (Found(acc) /\ acc.Number # fromAccount[p].Number) =>
                    CheckAccounts(fromAccount[p], acc, req[p].Amount) = ErrFunds

\* C6 as claimed: a request naming the same number twice ends with the
\* self-transfer error whatever its amount.
C6_SelfAlwaysErrSelf ==
    \A p \in Workers :
        (pc[p] = "done" /\ req[p].FromAccountNumber = req[p].ToAccountNumber)
            => result[p] = ErrSelf

\* C6 amended: a request naming the same number twice never reaches
\* performTransfer and opens no transaction; it ends with the invalid-amount
\* error when amount <= 0, else with the invalid-source error when no account
\* has the number, else with the self-transfer error whatever the balance.
C6_SelfRejected ==
    \A p \in Workers :
        (pc[p] # "idle" /\ req[p].FromAccountNumber = req[p].ToAccountNumber) =>
            /\ pc[p] \notin Performing
            /\ txState[p] = "none"
            /\ txWrite[p] = NoWrites
            /\ pc[p] = "done" =>
                  result[p] =
                     IF req[p].Amount <= 0 THEN ErrAmount
                     ELSE IF \A i \in rows : number[i] # req[p].FromAccountNumber
                          THEN ErrSource
                     ELSE ErrSelf

\* a self-transfer of more than the account holds was rejected as a
\* self-transfer
C6_Witness ==
    \E p \in Workers :
        /\ pc[p] = "done"
        /\ req[p].FromAccountNumber = req[p].ToAccountNumber
        /\ result[p] = ErrSelf
        /\ balance = initial
        /\ balance[AccountOf(req[p].FromAccountNumber)]
              < Int64OfAmount(req[p].Amount)

\* C7: a request with amount <= 0 ends with the invalid-amount error at its
\* first step: no GetAccountByNumber call was made and no transaction opened,
\* whatever numbers it names.
C7_AmountCheckedFirst ==
    \A p \in Workers :
        (req[p].Amount <= 0 /\ pc[p] # "idle") =>
            /\ pc[p] = "done"
            /\ result[p] = ErrAmount
            /\ lookups[p] = 0
            /\ txState[p] = "none"

\* a request with amount <= 0 naming numbers no account has was rejected
C7_Witness ==
    \E p \in Workers :
        /\ pc[p] = "done"
        /\ result[p] = ErrAmount
        /\ req[p].Amount < 0
        /\ \A i \in rows : number[i] \notin
              {req[p].FromAccountNumber, req[p].ToAccountNumber}

\* C8: a request rejected by validation has opened no transaction and written
\* nothing, no step of validation changes the table, and two calls with the
\* same request, made while the store stays unchanged, end with the same error.
C8_ValidationNoEffect ==
    /\ [](\A p \in Workers :
            /\ (pc[p] \in Validating \/ result[p] \in ValidationErrors) =>
                  (txState[p] = "none" /\ txWrite[p] = NoWrites)
            /\ \A q \in Workers :
                  (/\ pc[p] = "done" /\ result[p] \in ValidationErrors
                   /\ pc[q] = "done" /\ req[q] = req[p]
                   /\ ~stale[p] /\ ~stale[q]) => result[q] = result[p])
    /\ [][\A p \in Workers :
            (pc[p] \in Validating /\ Steps(p)) =>
                (balance' = balance /\ txWrite' = txWrite /\ rows' = rows)]_vars

\* the same request was made twice against the unchanged store and rejected
\* for insufficient balance both times
C8_Witness ==
    \E p \in Workers, q \in Workers :
        /\ p # q
        /\ pc[p] = "done" /\ pc[q] = "done"
        /\ req[p] = req[q]
        /\ ~stale[p] /\ ~stale[q]
        /\ result[p] = ErrFunds /\ result[q] = ErrFunds
        /\ balance = initial

\* C9: when every call has returned, each committed balance is the initial
\* balance plus the credits minus the debits of the receipts returned.
C9_NoLostUpdate ==
    Quiet => \A i \in Ids : balance[i] = initial[i] + ledger[i]

\* two transfers of positive amounts that debit the same account have both
\* returned their receipts
C9_Witness ==
    \E p \in Workers, q \in Workers :
        /\ p # q
        /\ pc[p] = "done" /\ result[p] = Success
        /\ pc[q] = "done" /\ result[q] = Success
        /\ req[p].FromAccountNumber = req[q].FromAccountNumber
        /\ AmountInCents(req[p].Amount) > 0
        /\ AmountInCents(req[q].Amount) > 0

\* C10: no two rows of the account table have the same account number.
C10_NumbersUnique ==
    \A i \in rows, j \in rows : number[i] = number[j] => i = j

\* the pcs at which performTransfer holds an open transaction
InTx == {"debit", "credit", "commit"}

\* C11: a call ends with exactly one of the receipt and an error, the receipt
\* exactly when its transaction committed; and the step that returns the
\* receipt is the successful Commit of a transaction in which the debit has
\* written the source row and the credit the destination row, so that it
\* moves m = int64(amount * 100) from the one to the other.
C11_ReceiptOnlyAfterCommit ==
    /\ [](\A p \in Workers :
            pc[p] = "done" =>
               /\ result[p] \in {Success} \cup ValidationErrors \cup ExecutionErrors
               /\ result[p] = Success <=> txState[p] = "committed")
    /\ [][\A p \in Workers :
            (Steps(p) /\ result'[p] = Success) =>
               LET m == AmountInCents(req[p].Amount)
                   X == fromAccount[p].ID
                   Y == toAccount[p].ID
               IN  /\ pc[p] = "commit"
                   /\ txState'[p] = "committed"
                   /\ {X, Y} \subseteq rows \cap DOMAIN txWrite[p]
                   /\ balance'[X] = balance[X] - m
                   /\ balance'[Y] = balance[Y] + m]_vars

\* C12: a call opens a transaction at most once (only a call that has none
\* opens one, and a transaction that is over is never open again); a call
\* that has returned has no open transaction and no row version left; the
\* balance statements run only on an open transaction; and the credit
\* statement runs only in a call whose debit statement has run without
\* error (its row version is there when the row is), the debit only in a
\* transaction that has written nothing yet.
C12_OneTransaction ==
    /\ [](\A p \in Workers :
            /\ pc[p] = "done" =>
                  (txState[p] \in {"none", "committed", "rolledback"}
                      /\ txWrite[p] = NoWrites)
            /\ pc[p] \in InTx => txState[p] = "open"
            /\ pc[p] \in {"idle"} \cup Validating \cup {"p_from", "p_to"}
                  => txState[p] = "none"
            /\ pc[p] = "debit" => txWrite[p] = NoWrites
            /\ (pc[p] \in {"credit", "commit"} /\ fromAccount[p].ID \in rows) =>
                  fromAccount[p].ID \in DOMAIN txWrite[p]
            /\ (pc[p] = "commit" /\ toAccount[p].ID \in rows) =>
                  toAccount[p].ID \in DOMAIN txWrite[p])
    /\ [][\A p \in Workers :
            /\ (txState'[p] = "open" /\ txState[p] # "open") =>
                  (txState[p] = "none" /\ pc[p] = "p_to")
            /\ txState[p] \in {"committed", "rolledback"} =>
                  (txState'[p] = txState[p] /\ txWrite'[p] = NoWrites)
            /\ (txWrite'[p] # txWrite[p] /\ txWrite'[p] # NoWrites) =>
                  (txState[p] = "open" /\ pc[p] \in {"debit", "credit"})
            /\ (pc'[p] = "credit" /\ Steps(p)) =>
                  (pc[p] = "debit" /\ result'[p] = NoResult)
            /\ (pc'[p] = "debit" /\ Steps(p)) => pc[p] = "p_to"]_vars

\* of two calls one has returned the receipt after its Commit and the other
\* an error after its credit failed, and both transactions are over
C12_Witness ==
    \E p \in Workers, q \in Workers :
        /\ pc[p] = "done" /\ result[p] = Success
        /\ txState[p] = "committed"
        /\ pc[q] = "done" /\ result[q] = ErrCredit
        /\ txState[q] = "rolledback"
        /\ txWrite[p] = NoWrites /\ txWrite[q] = NoWrites

\* C13: while performTransfer holds an account it has resolved, until its
\* transaction commits or is rolled back, the row of that account is in the
\* table.
C13_NoDeleteWhileReferenced ==
    \A p \in Workers :
        pc[p] \in {"p_to"} \cup InTx =>
            /\ Found(fromAccount[p]) => fromAccount[p].ID \in rows
            /\ Found(toAccount[p]) => toAccount[p].ID \in rows

\* the row seedAccount's CreateAccount inserted
SeedRow == nextId - 1

\* C14: when seedAccount's transaction has committed, the balance stored for
\* the account it created is 100000 minor units, and every other account has
\* the balance it had before.
C14_SeededBalance ==
    mainPc = "seed_verify" =>
        /\ SeedRow \in rows
        /\ balance[SeedRow] = 100000
        /\ \A i \in rows \ {SeedRow} : balance[i] = initial[i]

====
